---------------------------- MODULE Spec2Model ----------------------------
(***************************************************************************)
(* Model of the reflection-chat application of src/main.py: the record     *)
(* store (save_interview, get_student_topic_progress), the grading call    *)
(* (grade_transcript) and the per-participant session of chat_interface    *)
(* and complete_interview.                                                 *)
(*                                                                         *)
(* Text is modelled as sequences of one-character strings; an evaluator    *)
(* response is the sequence of its lines, each line split at its colons    *)
(* into a label (the text before the first colon) and a value (the text    *)
(* between the first and the second colon), which is what                  *)
(* line_stripped.startswith('<Label>:') and line_stripped.split(':')[1]    *)
(* read of it.                                                             *)
(***************************************************************************)
EXTENDS Integers, Sequences, FiniteSets, TLC

VARIABLES
    store,      \* the rows of table interviews, in insertion (id) order
    clock,      \* the wall clock, in the seconds datetime.now() is formatted to
    sess,       \* per participant: the st.session_state of their browser session
    admin,      \* the review surface: the browser session of the administrator
    gradeIn,    \* pure-function harness: the outcomes handed to grade_transcript
    gradeOut,   \* pure-function harness: what grade_transcript returned
    winIn,      \* pure-function harness: a starting index
    winOut,     \* pure-function harness: the two topic windows computed from it
    budget      \* the events of the run so far (bounds the exploration):
                \* sessions opened, Answer/Skip turns, extra events

vars == <<store, clock, sess, admin, gradeIn, gradeOut, winIn, winOut, budget>>

harness == <<gradeIn, gradeOut, winIn, winOut>>

Min(a, b) == IF a <= b THEN a ELSE b

(***************************************************************************)
(* Text                                                                    *)
(***************************************************************************)
Digits == {"0", "1", "2", "3", "4", "5", "6", "7", "8", "9"}

\* int() of one decimal digit
DigitVal(ch) ==
    CASE ch = "0" -> 0 [] ch = "1" -> 1 [] ch = "2" -> 2 [] ch = "3" -> 3
      [] ch = "4" -> 4 [] ch = "5" -> 5 [] ch = "6" -> 6 [] ch = "7" -> 7
      [] ch = "8" -> 8 [] ch = "9" -> 9

\* str.isdigit on one character
IsDigit(ch) == ch \in Digits

\* ''.join(filter(str.isdigit, text))
FilterDigits(text) == SelectSeq(text, IsDigit)

\* int(text) of a non-empty string of decimal digits
RECURSIVE DecimalValue(_)
DecimalValue(ds) ==
    IF ds = <<>> THEN 0
    ELSE 10 * DecimalValue(SubSeq(ds, 1, Len(ds) - 1)) + DigitVal(ds[Len(ds)])

\* int(''.join(filter(str.isdigit, text))): int('') raises ValueError
ParseInt(text) ==
    LET ds == FilterDigits(text)
    IN  IF ds = <<>> THEN [raised |-> TRUE, value |-> 0]
        ELSE [raised |-> FALSE, value |-> DecimalValue(ds)]

\* str.strip(): leading and trailing blanks removed
RECURSIVE Strip(_)
Strip(text) ==
    IF text = <<>> THEN <<>>
    ELSE IF Head(text) = " " THEN Strip(Tail(text))
    ELSE IF text[Len(text)] = " " THEN Strip(SubSeq(text, 1, Len(text) - 1))
    ELSE text

Pass == <<"P", "a", "s", "s">>

Fail == <<"F", "a", "i", "l">>

(***************************************************************************)
(* grade_transcript                                                        *)
(***************************************************************************)
max_retries == 3

PassMark == 60

FallbackScore == 75

\* round(correctness * 0.4 + understanding * 0.4 + explanation * 0.2): the
\* sum is (2c + 2u + e) / 5, never halfway between two integers, so round()
\* is the nearest integer
WeightedScore_truncated(c, u, e) == (2 * c + 2 * u + e) \div 5

WeightedScore(c, u, e) == (2 * (2 * c + 2 * u + e) + 5) \div 10

\* "Pass" if score >= 60 else "Fail"
StatusOf(score) == IF score >= PassMark THEN Pass ELSE Fail

\* the values set before the loop over the lines
ParseStart ==
    [raised |-> FALSE, score |-> 0, status |-> Fail,
     correctness |-> 0, understanding |-> 0, explanation |-> 0]

\* one turn of the loop over the lines: the if/elif chain on the line's label
ParseLine(acc, line) ==
    LET n == ParseInt(line.value)
    IN  CASE line.label = "Correctness" ->
                 IF n.raised THEN [acc EXCEPT !.raised = TRUE]
                 ELSE [acc EXCEPT !.correctness = n.value]
          [] line.label = "Understanding" ->
                 IF n.raised THEN [acc EXCEPT !.raised = TRUE]
                 ELSE [acc EXCEPT !.understanding = n.value]
          [] line.label = "Explanation" ->
                 IF n.raised THEN [acc EXCEPT !.raised = TRUE]
                 ELSE [acc EXCEPT !.explanation = n.value]
          [] line.label = "Score" ->
                 IF n.raised THEN [acc EXCEPT !.raised = TRUE]
                 ELSE [acc EXCEPT !.score = n.value]
          [] line.label = "Status" -> [acc EXCEPT !.status = Strip(line.value)]
          [] OTHER -> acc

\* the loop over result_text.split('\n'), left at the first line that raises
RECURSIVE ParseLines(_, _)
ParseLines(acc, lines) ==
    IF lines = <<>> \/ acc.raised THEN acc
    ELSE ParseLines(ParseLine(acc, Head(lines)), Tail(lines))

\* the recalculation of the weighted score when a sub-score is non-zero
Recompute(p) ==
    IF p.correctness # 0 \/ p.understanding # 0 \/ p.explanation # 0
    THEN LET s == WeightedScore(p.correctness, p.understanding, p.explanation)
         IN  [p EXCEPT !.score = s, !.status = StatusOf(s)]
    ELSE p

ApiLimitsText == <<[label |-> "Unable to grade due to API limits", value |-> <<>>]>>

GradingErrorText == <<[label |-> "Grading error", value |-> <<>>]>>

MultipleAttemptsText == <<[label |-> "Unable to grade after multiple attempts", value |-> <<>>]>>

ReturnTuple(score, status, feedback, c, u, e, n) ==
    [raised |-> FALSE, score |-> score, status |-> status, feedback |-> feedback,
     correctness |-> c, understanding |-> u, explanation |-> e, attempts |-> n]

Fallback_raises(feedback, n) ==
    [raised |-> TRUE, score |-> 0, status |-> Fail, feedback |-> feedback,
     correctness |-> 0, understanding |-> 0, explanation |-> 0, attempts |-> n]

Fallback_zero(feedback, n) == ReturnTuple(0, Fail, feedback, 0, 0, 0, n)

\* return 75, "Pass", <text>, 0, 0, 0
Fallback(feedback, n) == ReturnTuple(FallbackScore, Pass, feedback, 0, 0, 0, n)

\* the body of the try of one attempt, given the response text
GradeResponse(lines, n) ==
    LET p == ParseLines(ParseStart, lines)
    IN  IF p.raised THEN Fallback(GradingErrorText, n)
        ELSE LET r == Recompute(p)
             IN  ReturnTuple(r.score, r.status, lines,
                             r.correctness, r.understanding, r.explanation, n)

\* the for loop over range(max_retries), from attempt number `attempt`;
\* outcomes[k] is what the k-th call of generate_content does
RECURSIVE GradeFrom(_, _)
GradeFrom(outcomes, attempt) ==
    IF attempt >= max_retries THEN Fallback(MultipleAttemptsText, attempt)
    ELSE LET out == outcomes[attempt + 1]
         IN  CASE out.kind = "text" -> GradeResponse(out.lines, attempt + 1)
               [] out.kind = "rate_limit" ->
                      IF attempt < max_retries - 1
                      THEN GradeFrom(outcomes, attempt + 1)
                      ELSE Fallback(ApiLimitsText, attempt + 1)
               [] OTHER -> Fallback(GradingErrorText, attempt + 1)

\* the transcript only enters the prompt: the result is decided by what the
\* evaluator answers to it
grade_transcript(transcript, outcomes) == GradeFrom(outcomes, 0)

(***************************************************************************)
(* Evaluator outcomes                                                      *)
(***************************************************************************)
RateLimit == [kind |-> "rate_limit", lines |-> <<>>]

OtherError == [kind |-> "error", lines |-> <<>>]

Text(lines) == [kind |-> "text", lines |-> lines]

Absent == <<"-">>

\* what the evaluator may write after a numeric label
NumberTexts ==
    { Absent,
      <<" ", "0">>, <<" ", "5", "9">>, <<" ", "6", "0">>, <<" ", "7", "0">>,
      <<" ", "8", "0">>, <<" ", "9", "0">>,
      <<" ", "8", "5", "/", "1", "0", "0">>,
      <<" ", "N", "/", "A">> }

ScoreTexts ==
    { Absent, <<" ", "1", "0">>, <<" ", "8", "5", "/", "1", "0", "0">>, <<" ">> }

StatusTexts ==
    { Absent, <<" ">> \o Pass, <<" ">> \o Fail, <<" ", "P", "a", "s", "s", "e", "d", " ">> }

OptLine(label, value) ==
    IF value = Absent THEN <<>> ELSE <<[label |-> label, value |-> value]>>

\* a response in the format the prompt asks for, any labelled line left out
Response(c, u, e, s, st) ==
    OptLine("Correctness", c) \o OptLine("Understanding", u)
      \o OptLine("Explanation", e) \o OptLine("Score", s) \o OptLine("Status", st)
      \o <<[label |-> "Feedback", value |-> <<" ", "o", "k">>]>>

Responses ==
    { Response(c, u, e, s, st) :
        c \in NumberTexts, u \in NumberTexts, e \in NumberTexts,
        s \in ScoreTexts, st \in StatusTexts }

\* k rate-limit failures, then `final` on every later call
After(k, final) ==
    SubSeq([i \in 1..max_retries |-> IF i <= k THEN RateLimit ELSE final], 1, max_retries)

GradeInputs ==
    { After(k, Text(r)) : k \in 0..(max_retries - 1), r \in Responses }
      \cup { After(k, OtherError) : k \in 0..max_retries }


(***************************************************************************)
(* Curriculum and topic window                                             *)
(***************************************************************************)
TOPICS ==
    << "Simple Harmonic Motion", "Pendulum and Mass Spring", "Wave form",
       "Damped oscillation Damped Pendulum", "Waves on a string",
       "Standing Waves", "Sound Waves", "Doppler effect",
       "Musical instruments", "Light as a wave", "Angular Resolution",
       "Thin film", "Polarization", "Thermal Physics Black body",
       "Light as a particle", "Radioactivity", "Relativity" >>

WindowSize == 5

\* seq[lo:hi] of Python for lo, hi >= 0: both ends are clamped to len(seq)
PySlice(seq, lo, hi) ==
    LET l == Min(lo, Len(seq))
        h == Min(hi, Len(seq))
    IN  IF l >= h THEN <<>> ELSE SubSeq(seq, l + 1, h)

\* TOPICS[starting_topic_index:starting_topic_index + 5], inside the try of
\* the session-opening block
OpeningTopics(start) == PySlice(TOPICS, start, start + WindowSize)

SessionTopics_unclipped(start) ==
    [i \in 1..WindowSize |-> TOPICS[((start + i - 1) % Len(TOPICS)) + 1]]

\* TOPICS[starting_index:min(starting_index + 5, len(TOPICS))]
SessionTopics(start) == PySlice(TOPICS, start, Min(start + WindowSize, Len(TOPICS)))

WrapStart_never(progress) == progress

WrapStart_strict(progress) == IF progress > Len(TOPICS) THEN 0 ELSE progress

\* if starting_topic_index >= len(TOPICS): restart from 0
WrapStart(progress) == IF progress >= Len(TOPICS) THEN 0 ELSE progress

(***************************************************************************)
(* Record store                                                            *)
(***************************************************************************)
Students == {"s1", "s2"}

Row(student_id, date, g, transcript, topic_index) ==
    [student_id |-> student_id, date |-> date, score |-> g.score,
     status |-> g.status, transcript |-> transcript, topic_index |-> topic_index,
     correctness |-> g.correctness, understanding |-> g.understanding,
     explanation |-> g.explanation]

save_interview_replacing(st, now, student_id, g, transcript, topic_index) ==
    Append(SelectSeq(st, LAMBDA r : r.student_id # student_id),
           Row(student_id, now, g, transcript, topic_index))

\* INSERT INTO interviews ...; date is datetime.now() to the second
save_interview(st, now, student_id, g, transcript, topic_index) ==
    Append(st, Row(student_id, now, g, transcript, topic_index))

RowsOf(st, student_id) == {i \in 1..Len(st) : st[i].student_id = student_id}

\* SELECT * FROM interviews
get_all_interviews(st) == st

\* the administrator's st.session_state before the identifier is entered
NoAdmin ==
    [logged_in |-> FALSE,
     page |-> "login",          \* what the last script run rendered
     rows |-> 0,                \* the rows the last script run read
     runs |-> 0,                \* script runs of admin_panel so far
     summary |-> <<>>,          \* the summary table computed last, and of how many rows
     repeated |-> FALSE,        \* it was computed before from the same rows
     view_student |-> "none",   \* admin_view_student, when set
     analysis_results |-> {},   \* analysis_results: row id and analysis text
     analysis_call |-> <<>>]    \* the last call of analyze_student_session

get_student_topic_progress_unfiltered(st, student_id) ==
    IF st = <<>> THEN {0}
    ELSE {st[i].topic_index :
            i \in {j \in 1..Len(st) : \A k \in 1..Len(st) : st[k].date <= st[j].date}}

\* SELECT topic_index ... WHERE student_id = ? ORDER BY date DESC LIMIT 1:
\* the set of values the query may return. Rows of equal date are in no
\* defined order, so any of the rows of greatest date may come first.
get_student_topic_progress(st, student_id) ==
    LET rows == RowsOf(st, student_id)
    IN  IF rows = {} THEN {0}
        ELSE {st[i].topic_index :
                i \in {j \in rows : \A k \in rows : st[k].date <= st[j].date}}

(***************************************************************************)
(* Session state                                                           *)
(***************************************************************************)
Assistant(text) == [role |-> "assistant", kind |-> "reply", text |-> text]

UserAnswer(text) == [role |-> "user", kind |-> "answer", text |-> text]

\* "[Student hasn't learned: <topic> - Not yet covered in class]"
SkipMessage(topic) == [role |-> "user", kind |-> "skip", text |-> topic]

\* the "\n\n".join of "<label>: <content>" over the message log
RenderTranscript(messages) ==
    [i \in 1..Len(messages) |->
        [label |-> IF messages[i].role = "assistant"
                   THEN "AI Learning Companion" ELSE "Student",
         kind |-> messages[i].kind, text |-> messages[i].text]]

NoCall == [kind |-> "none", attempts |-> 0]

\* chat.send_message inside try/except, outside any loop: one attempt,
\* whatever its outcome
send_message(out) == [kind |-> out, attempts |-> 1]

\* st.session_state before a participant identifier is entered
NoSession ==
    [logged_in |-> FALSE, has_messages |-> FALSE, messages |-> <<>>,
     turn_count |-> 0, interview_complete |-> FALSE,
     starting_topic_index |-> 0, current_topic_index |-> 0,
     grade_breakdown |-> <<>>,
     progress |-> 0,        \* what get_student_topic_progress returned at the opening
     call |-> NoCall,       \* the last send_message of the chat: outcome, attempts made
     gen_failures |-> 0,    \* send_message calls of this session that raised
     widgets |-> "login",   \* the controls the last script run rendered
     error |-> "none",      \* the error the last script run reported
     grade_calls |-> 0,     \* calls of grade_transcript made by this session
     saves |-> 0,           \* rows inserted by this session
     save_failures |-> 0]   \* INSERTs of this session that raised

\* the spec's names for the states of a session
NotStarted(s) == ~sess[s].has_messages

InProgress(s) == sess[s].has_messages /\ ~sess[s].interview_complete

Completed(s) == sess[s].has_messages /\ sess[s].interview_complete

AnswerTexts == {"answer"}

ControlsReached_always(s) == TRUE

\* chat_interface returns after the completion view when interview_complete
\* is set, before it evaluates the Skip, Finish and chat-input widgets
ControlsReached(s) == ~sess[s].interview_complete

\* the 'messages' not in st.session_state block of chat_interface, run with
\* the value `progress` read from the store and the outcome `out` of the
\* opening send_message; `base` is the session state the run starts from
OpenSession(base, progress, out) ==
    LET start == WrapStart(progress)
        fresh == [base EXCEPT !.has_messages = TRUE, !.messages = <<>>,
                              !.turn_count = 0, !.interview_complete = FALSE,
                              !.starting_topic_index = start,
                              !.current_topic_index = start,
                              !.grade_breakdown = <<>>,
                              !.progress = progress,
                              !.call = send_message(out),
                              !.gen_failures = IF out = "ok" THEN 0 ELSE 1,
                              !.grade_calls = 0, !.saves = 0,
                              !.save_failures = 0]
    IN  IF out = "ok" /\ OpeningTopics(start) # <<>>
        THEN [fresh EXCEPT !.messages = <<Assistant("question")>>,
                           !.widgets = "chat", !.error = "none"]
        ELSE [fresh EXCEPT !.widgets = "none", !.error = "start"]


(***************************************************************************)
(* Bounds of the exploration                                               *)
(***************************************************************************)
\* Answer and Skip events in a run
MaxTurns == 3

\* events of a run beyond one session in which every call succeeds: a
\* further session opened, a generation call or an INSERT that fails, an
\* evaluator response other than the plain one, a view of the review surface
MaxExtra == 2

\* the participants who act in a run
Active == {"s1"}

NoBudget == [opened |-> 0, turns |-> 0, extra |-> 0]

\* the outcomes a generation call of the chat may have
GenOutcomes == {"ok", "rate_limit", "error"}

\* the second datetime.now() reads at a save: time has passed since the last
\* save, or not a full second
ClockReadings == {clock, clock + 1}

Spend(nopened, nturns, nfaults) ==
    LET cost == nfaults + (IF nopened > 0 /\ budget.opened > 0 THEN 1 ELSE 0)
    IN  /\ budget.turns + nturns <= MaxTurns
        /\ budget.extra + cost <= MaxExtra
        /\ budget' = [opened |-> budget.opened + nopened,
                      turns |-> budget.turns + nturns,
                      extra |-> budget.extra + cost]

Faults(out) == IF out = "ok" THEN 0 ELSE 1

\* the evaluator answering at once, in the format asked for
PlainGrade ==
    After(0, Text(Response(<<" ", "9", "0">>, <<" ", "6", "0">>, <<" ", "5", "9">>,
                           <<" ", "1", "0">>, <<" ">> \o Fail)))

\* what the evaluator does during a session's grading call
SessionGradeInputs ==
    { PlainGrade,
      After(1, Text(Response(<<" ", "0">>, Absent, <<" ", "0">>,
                             <<" ", "1", "0">>, <<" ", "P", "a", "s", "s", "e", "d", " ">>))),
      After(0, Text(Response(<<" ", "8", "5", "/", "1", "0", "0">>, <<" ", "6", "0">>,
                             <<" ", "5", "9">>, Absent, <<" ">> \o Pass))),
      After(0, Text(Response(<<" ", "1", "5", "0">>, <<" ", "9", "0">>,
                             <<" ", "9", "0">>, Absent, Absent))),
      After(max_retries, OtherError),
      After(0, OtherError) }

(***************************************************************************)
(* complete_interview                                                      *)
(***************************************************************************)
complete_interview_absorbing(s, cur, outcomes, now, save_ok, turn) ==
    LET transcript == RenderTranscript(cur.messages)
        g == grade_transcript(transcript, outcomes)
        nfaults == (IF outcomes = PlainGrade THEN 0 ELSE 1) + (IF save_ok THEN 0 ELSE 1)
        shown == [cur EXCEPT !.interview_complete = TRUE, !.grade_calls = @ + 1,
                             !.grade_breakdown =
                     <<[correctness |-> g.correctness, understanding |-> g.understanding,
                        explanation |-> g.explanation, score |-> g.score,
                        status |-> g.status, feedback |-> g.feedback]>>,
                             !.widgets = "done", !.error = "none"]
    IN  /\ Spend(0, IF turn THEN 1 ELSE 0, nfaults)
        /\ IF save_ok
           THEN /\ store' = save_interview(store, now, s, g, transcript,
                                           cur.current_topic_index)
                /\ clock' = now
                /\ sess' = [sess EXCEPT ![s] = [shown EXCEPT !.saves = @ + 1]]
           ELSE /\ UNCHANGED <<store, clock>>
                /\ sess' = [sess EXCEPT ![s] = [shown EXCEPT !.save_failures = @ + 1]]

\* complete_interview run on session state `cur` of participant s, with the
\* evaluator's outcomes, the second `now` the save reads off the clock and
\* whether the INSERT succeeds; the st.rerun() that
\* ends it renders the completion view (turn: the handler that called it
\* was an Answer or a Skip)
complete_interview(s, cur, outcomes, now, save_ok, turn) ==
    LET transcript == RenderTranscript(cur.messages)
        g == grade_transcript(transcript, outcomes)
        done == [cur EXCEPT !.interview_complete = TRUE, !.grade_calls = @ + 1]
        nfaults == (IF outcomes = PlainGrade THEN 0 ELSE 1) + (IF save_ok THEN 0 ELSE 1)
        shown == [done EXCEPT !.grade_breakdown =
                     <<[correctness |-> g.correctness, understanding |-> g.understanding,
                        explanation |-> g.explanation, score |-> g.score,
                        status |-> g.status, feedback |-> g.feedback]>>]
    IN  /\ Spend(0, IF turn THEN 1 ELSE 0, nfaults)
        /\ IF g.raised
           THEN /\ sess' = [sess EXCEPT ![s] = [done EXCEPT !.error = "exception"]]
                /\ UNCHANGED <<store, clock>>
           ELSE IF save_ok
           THEN /\ store' = save_interview(store, now, s, g, transcript,
                                           cur.current_topic_index)
                /\ clock' = now
                /\ sess' = [sess EXCEPT ![s] = [shown EXCEPT !.saves = @ + 1,
                                                             !.widgets = "done",
                                                             !.error = "none"]]
           ELSE /\ UNCHANGED <<store, clock>>
                /\ sess' = [sess EXCEPT ![s] = [shown EXCEPT !.save_failures = @ + 1,
                                                             !.error = "save"]]

FollowUp_rolls_back(cur, out) ==
    IF out = "ok"
    THEN [cur EXCEPT !.messages = Append(@, Assistant("question")),
                     !.call = send_message(out),
                     !.widgets = "chat", !.error = "none"]
    ELSE [cur EXCEPT !.call = send_message(out), !.gen_failures = @ + 1,
                     !.turn_count = @ - 1, !.current_topic_index = @ - 1,
                     !.widgets = "chat", !.error = "followup"]

FollowUp_no_reply(cur, out) ==
    IF out = "ok"
    THEN [cur EXCEPT !.call = send_message(out),
                     !.widgets = "chat", !.error = "none"]
    ELSE [cur EXCEPT !.call = send_message(out), !.gen_failures = @ + 1,
                     !.widgets = "chat", !.error = "followup"]

\* the follow-up send_message of Skip and of the chat input, on session
\* state `cur` (the participant turn appended, the counters incremented):
\* the reply is appended, or the error is reported and the run goes on
FollowUp(cur, out) ==
    IF out = "ok"
    THEN [cur EXCEPT !.messages = Append(@, Assistant("question")),
                     !.call = send_message(out),
                     !.widgets = "chat", !.error = "none"]
    ELSE [cur EXCEPT !.call = send_message(out), !.gen_failures = @ + 1,
                     !.widgets = "chat", !.error = "followup"]

(***************************************************************************)
(* Actions: one per event of a participant's browser session               *)
(***************************************************************************)
\* main: a participant identifier is entered; the rerun enters chat_interface,
\* which opens the session
Login(s) ==
    /\ ~sess[s].logged_in
    /\ \E progress \in get_student_topic_progress(store, s), out \in GenOutcomes :
          /\ Spend(1, 0, Faults(out))
          /\ sess' = [sess EXCEPT ![s] = OpenSession([sess[s] EXCEPT !.logged_in = TRUE], progress, out)]
    /\ UNCHANGED <<store, clock, admin, harness>>

\* the Start New Session button of the completion view: the session keys are
\* deleted and the rerun opens the next session
StartNewSession(s) ==
    /\ sess[s].widgets = "done"
    /\ \E progress \in get_student_topic_progress(store, s), out \in GenOutcomes :
          /\ Spend(1, 0, Faults(out))
          /\ sess' = [sess EXCEPT ![s] = OpenSession(sess[s], progress, out)]
    /\ UNCHANGED <<store, clock, admin, harness>>

Rerun_reopens(s) ==
    /\ sess[s].has_messages
    /\ IF sess[s].error = "start"
       THEN \E out \in GenOutcomes :
               /\ Spend(1, 0, Faults(out))
               /\ sess' = [sess EXCEPT ![s] = OpenSession(sess[s], sess[s].progress, out)]
       ELSE /\ sess' = [sess EXCEPT ![s].widgets =
                                        IF sess[s].interview_complete THEN "done" ELSE "chat",
                                   ![s].error = "none"]
            /\ sess' # sess
            /\ UNCHANGED budget
    /\ UNCHANGED <<store, clock, admin, harness>>

\* a script run no handler acts in: the page is rerun, or a control left
\* over from an earlier run is used
Rerun(s) ==
    /\ sess[s].has_messages
    /\ sess' = [sess EXCEPT ![s].widgets =
                                 IF sess[s].interview_complete THEN "done" ELSE "chat",
                            ![s].error = "none"]
    /\ sess' # sess
    /\ UNCHANGED <<store, clock, admin, harness, budget>>

Skip_keeps_topic_index(s) ==
    /\ sess[s].widgets = "chat"
    /\ ControlsReached(s)
    /\ LET topics == SessionTopics(sess[s].starting_topic_index)
       IN  /\ sess[s].turn_count < Len(topics)
           /\ LET skipped_topic == topics[sess[s].turn_count + 1]
                  cur == [sess[s] EXCEPT
                             !.messages = Append(@, SkipMessage(skipped_topic)),
                             !.turn_count = @ + 1]
              IN  IF cur.turn_count >= Len(topics)
                  THEN \E outcomes \in SessionGradeInputs, now \in ClockReadings,
                             save_ok \in BOOLEAN :
                          complete_interview(s, cur, outcomes, now, save_ok, TRUE)
                  ELSE /\ \E out \in GenOutcomes :
                            /\ Spend(0, 1, Faults(out))
                            /\ sess' = [sess EXCEPT ![s] = FollowUp(cur, out)]
                       /\ UNCHANGED <<store, clock>>
    /\ UNCHANGED <<admin, harness>>

\* the "Haven't Learned This Yet" button
Skip(s) ==
    /\ sess[s].widgets = "chat"
    /\ ControlsReached(s)
    /\ LET topics == SessionTopics(sess[s].starting_topic_index)
       IN  /\ sess[s].turn_count < Len(topics)
           /\ LET skipped_topic == topics[sess[s].turn_count + 1]
                  cur == [sess[s] EXCEPT
                             !.messages = Append(@, SkipMessage(skipped_topic)),
                             !.turn_count = @ + 1,
                             !.current_topic_index = @ + 1]
              IN  IF cur.turn_count >= Len(topics)
                  THEN \E outcomes \in SessionGradeInputs, now \in ClockReadings,
                             save_ok \in BOOLEAN :
                          complete_interview(s, cur, outcomes, now, save_ok, TRUE)
                  ELSE /\ \E out \in GenOutcomes :
                            /\ Spend(0, 1, Faults(out))
                            /\ sess' = [sess EXCEPT ![s] = FollowUp(cur, out)]
                       /\ UNCHANGED <<store, clock>>
    /\ UNCHANGED <<admin, harness>>

\* the Finish Session button
Finish(s) ==
    /\ sess[s].widgets = "chat"
    /\ ControlsReached(s)
    /\ \E outcomes \in SessionGradeInputs, now \in ClockReadings,
          save_ok \in BOOLEAN :
          complete_interview(s, sess[s], outcomes, now, save_ok, FALSE)
    /\ UNCHANGED <<admin, harness>>

Answer_keeps_topic_index(s) ==
    /\ sess[s].widgets = "chat"
    /\ ControlsReached(s)
    /\ \E prompt \in AnswerTexts :
         LET topics == SessionTopics(sess[s].starting_topic_index)
             cur == [sess[s] EXCEPT
                        !.messages = Append(@, UserAnswer(prompt)),
                        !.turn_count = @ + 1]
         IN  IF cur.turn_count >= Len(topics)
             THEN \E outcomes \in SessionGradeInputs, now \in ClockReadings,
                        save_ok \in BOOLEAN :
                     complete_interview(s, cur, outcomes, now, save_ok, TRUE)
             ELSE /\ \E out \in GenOutcomes :
                       /\ Spend(0, 1, Faults(out))
                       /\ sess' = [sess EXCEPT ![s] = FollowUp(cur, out)]
                  /\ UNCHANGED <<store, clock>>
    /\ UNCHANGED <<admin, harness>>

\* text entered in the chat input
Answer(s) ==
    /\ sess[s].widgets = "chat"
    /\ ControlsReached(s)
    /\ \E prompt \in AnswerTexts :
         LET topics == SessionTopics(sess[s].starting_topic_index)
             cur == [sess[s] EXCEPT
                        !.messages = Append(@, UserAnswer(prompt)),
                        !.turn_count = @ + 1,
                        !.current_topic_index = @ + 1]
         IN  IF cur.turn_count >= Len(topics)
             THEN \E outcomes \in SessionGradeInputs, now \in ClockReadings,
                        save_ok \in BOOLEAN :
                     complete_interview(s, cur, outcomes, now, save_ok, TRUE)
             ELSE /\ \E out \in GenOutcomes :
                       /\ Spend(0, 1, Faults(out))
                       /\ sess' = [sess EXCEPT ![s] = FollowUp(cur, out)]
                  /\ UNCHANGED <<store, clock>>
    /\ UNCHANGED <<admin, harness>>

\* script runs of the administrator's page in one run of the model
MaxRuns == 6

(***************************************************************************)
(* analyze_student_session                                                 *)
(***************************************************************************)
analysis_max_retries == 3

RateLimitAnalysisText == <<"Unable to generate analysis due to API rate limits">>

AnalysisErrorText == <<"Analysis error">>

MultipleAttemptsAnalysisText == <<"Unable to generate analysis after multiple attempts">>

\* response.text, as lines
AnalysisText(lines) == lines

AnalysisReturn_raises(text, n) == [raised |-> TRUE, text |-> text, attempts |-> n]

\* return <text>
AnalysisReturn(text, n) == [raised |-> FALSE, text |-> text, attempts |-> n]

\* the for loop over range(max_retries), from attempt number `attempt`;
\* outcomes[k] is what the k-th call of generate_content does
RECURSIVE AnalyzeFrom(_, _)
AnalyzeFrom(outcomes, attempt) ==
    IF attempt >= analysis_max_retries
    THEN AnalysisReturn(MultipleAttemptsAnalysisText, attempt)
    ELSE LET out == outcomes[attempt + 1]
         IN  CASE out.kind = "text" -> AnalysisReturn(AnalysisText(out.lines), attempt + 1)
               [] out.kind = "rate_limit" ->
                      IF attempt < analysis_max_retries - 1
                      THEN AnalyzeFrom(outcomes, attempt + 1)
                      ELSE AnalysisReturn(RateLimitAnalysisText, attempt + 1)
               [] OTHER -> AnalysisReturn(AnalysisErrorText, attempt + 1)

\* transcript, score and status only enter the prompt
analyze_student_session(transcript, score, status, outcomes) ==
    AnalyzeFrom(outcomes, 0)

\* what the service does during one call of analyze_student_session
AnalysisInputs ==
    { After(k, Text(<<"analysis">>)) : k \in 0..(analysis_max_retries - 1) }
      \cup { After(k, OtherError) : k \in 0..analysis_max_retries }

(***************************************************************************)
(* admin_panel                                                             *)
(***************************************************************************)
\* df['student_id'].unique()
StudentsIn(df) == {df[i].student_id : i \in 1..Len(df)}

\* round(x, 1) of x = total / n, in tenths: the nearest tenth, the even one
\* of two equally near
RoundTenths(total, n) ==
    LET q == (10 * total) \div n
        r == (10 * total) % n
    IN  IF 2 * r > n \/ (2 * r = n /\ q % 2 = 1) THEN q + 1 ELSE q

\* the three learning statuses of the overview
LearningStatus(topic_index) ==
    IF topic_index >= Len(TOPICS) THEN "Completed All Topics"
    ELSE IF topic_index = 0 THEN "Just Started"
    ELSE "In Progress"

Total(df, rows) ==
    LET RECURSIVE Sum(_)
        Sum(S) == IF S = {} THEN 0
                  ELSE LET i == CHOOSE j \in S : TRUE
                       IN  df[i].score + Sum(S \ {i})
    IN  Sum(rows)

\* one line of the summary table. sort_values('date', ascending=False) puts
\* one of the rows of greatest date first, the same one whenever the same
\* rows are sorted; `latest` holds what the line shows for each of the rows
\* that may be that one
SummaryRow(df, student_id) ==
    LET rows == RowsOf(df, student_id)
        newest == {j \in rows : \A k \in rows : df[k].date <= df[j].date}
    IN  [latest |-> {[topic_index |-> df[j].topic_index,
                      learning_status |-> LearningStatus(df[j].topic_index),
                      latest_score |-> df[j].score,
                      latest_status |-> df[j].status] : j \in newest},
         last_date |-> df[CHOOSE j \in newest : TRUE].date,
         total_sessions |-> Cardinality(rows),
         avg_score |-> RoundTenths(Total(df, rows), Cardinality(rows))]

\* the loop that builds summary_rows
Summary(df) == [b \in StudentsIn(df) |-> SummaryRow(df, b)]

\* one script run of admin_panel on the rows read by get_all_interviews
RunAdminPanel(a) ==
    LET df == get_all_interviews(store)
        ran == [a EXCEPT !.logged_in = TRUE, !.rows = Len(df), !.runs = @ + 1]
    IN  IF df = <<>> THEN [ran EXCEPT !.page = "empty"]
        ELSE IF a.view_student # "none" THEN [ran EXCEPT !.page = "student"]
        ELSE [ran EXCEPT !.page = "list",
                         !.summary = <<[of |-> Len(df), lines |-> Summary(df)]>>,
                         !.repeated = a.summary # <<>> /\ a.summary[1].of = Len(df)]

AdminPanel_accumulating ==
    /\ Spend(0, 0, 1)
    /\ admin' = [RunAdminPanel(admin) EXCEPT
                    !.summary = IF admin.summary = <<>> \/ @ = <<>> THEN @
                                ELSE <<[@[1] EXCEPT !.lines =
                                         [b \in DOMAIN @ |->
                                            [@[b] EXCEPT !.total_sessions =
                                               @ + (IF b \in DOMAIN admin.summary[1].lines
                                                    THEN admin.summary[1].lines[b].total_sessions
                                                    ELSE 0)]]]>>]
    /\ UNCHANGED <<store, clock, sess, harness>>

\* the administrator identifier is entered, or the administrator's page is
\* run again
AdminPanel ==
    /\ Spend(0, 0, 1)
    /\ admin' = RunAdminPanel(admin)
    /\ UNCHANGED <<store, clock, sess, harness>>

\* a button of the list of participants below the summary
ViewStudent(b) ==
    /\ admin.page = "list"
    /\ admin.runs < MaxRuns
    /\ b \in DOMAIN admin.summary[1].lines
    /\ admin' = RunAdminPanel([admin EXCEPT !.view_student = b])
    /\ UNCHANGED <<store, clock, sess, harness, budget>>

\* the Back to Student List button
BackToStudentList ==
    /\ admin.page = "student"
    /\ admin.runs < MaxRuns
    /\ admin' = RunAdminPanel([admin EXCEPT !.view_student = "none",
                                            !.analysis_results = {}])
    /\ UNCHANGED <<store, clock, sess, harness, budget>>

\* the Analyze This Session button of row i of the participant viewed
Analyze(i) ==
    /\ admin.page = "student"
    /\ admin.runs < MaxRuns
    /\ i \in 1..admin.rows
    /\ store[i].student_id = admin.view_student
    /\ \E outcomes \in AnalysisInputs :
          LET r == analyze_student_session(store[i].transcript, store[i].score,
                                           store[i].status, outcomes)
              called == [admin EXCEPT !.analysis_call =
                           <<[row |-> i, outcomes |-> outcomes, result |-> r]>>]
          IN  admin' = IF r.raised THEN [called EXCEPT !.page = "exception"]
                       ELSE RunAdminPanel([called EXCEPT !.analysis_results =
                              {x \in @ : x.row # i} \cup {[row |-> i, text |-> r.text]}])
    /\ UNCHANGED <<store, clock, sess, harness, budget>>

(***************************************************************************)
(* Initial states: the database file outlives the process (init_db only    *)
(* creates the table when it is missing), so a run starts from the rows of *)
(* earlier sessions.                                                       *)
(***************************************************************************)
\* the log of a session in which every topic of the window was answered
FullLog(start) ==
    [i \in 1..(2 * Len(SessionTopics(start))) |->
        IF i % 2 = 1 THEN Assistant("question") ELSE UserAnswer("answer")]

\* earlier sessions: four of participant s1, starting at topics 0, 5, 10
\* and 15, and after the first of them one of participant s2; one per second
SeedGrade == grade_transcript(<<>>, PlainGrade)

SeedRow(student_id, date, start) ==
    Row(student_id, date, SeedGrade, RenderTranscript(FullLog(start)),
        start + Len(SessionTopics(start)))

History ==
    << SeedRow("s1", 0, 0), SeedRow("s2", 1, 0), SeedRow("s1", 2, 5),
       SeedRow("s1", 3, 10), SeedRow("s1", 4, 15) >>

InitialStores == {SubSeq(History, 1, n) : n \in {0, 4, 5}}

Init ==
    /\ store \in InitialStores
    /\ clock = History[Len(History)].date + 1
    /\ sess = [s \in Students |-> NoSession]
    /\ admin = NoAdmin
    /\ gradeIn = <<>> /\ gradeOut = <<>> /\ winIn = <<>> /\ winOut = <<>>
    /\ budget = NoBudget

Next ==
    \/ \E s \in Active : Login(s)
    \/ \E s \in Active : StartNewSession(s)
    \/ \E s \in Active : Rerun(s)
    \/ \E s \in Active : Skip(s)
    \/ \E s \in Active : Finish(s)
    \/ \E s \in Active : Answer(s)
    \/ AdminPanel

Spec == Init /\ [][Next]_vars

(***************************************************************************)
(* Two participants, each in a browser session of their own, their script  *)
(* runs interleaved in any order                                           *)
(***************************************************************************)
NextTwo ==
    \/ \E s \in Students : Login(s)
    \/ \E s \in Students : StartNewSession(s)
    \/ \E s \in Students : Rerun(s)
    \/ \E s \in Students : Skip(s)
    \/ \E s \in Students : Finish(s)
    \/ \E s \in Students : Answer(s)

\* the second participant is one of the extra events of the run
InitTwo ==
    /\ store \in InitialStores
    /\ clock = History[Len(History)].date + 1
    /\ sess = [s \in Students |-> NoSession]
    /\ admin = NoAdmin
    /\ gradeIn = <<>> /\ gradeOut = <<>> /\ winIn = <<>> /\ winOut = <<>>
    /\ budget = [NoBudget EXCEPT !.extra = 1]

SpecTwo == InitTwo /\ [][NextTwo]_vars

(***************************************************************************)
(* The review surface on the rows of earlier sessions                      *)
(***************************************************************************)
NextAdmin ==
    \/ AdminPanel
    \/ \E b \in Students : ViewStudent(b)
    \/ BackToStudentList
    \/ \E i \in 1..Len(History) : Analyze(i)

SpecAdmin == Init /\ [][NextAdmin]_vars

(***************************************************************************)
(* Pure functions: grade_transcript and the topic window, applied to       *)
(* inputs drawn in the initial state                                       *)
(***************************************************************************)
InitFn ==
    /\ store = <<>>
    /\ clock = 0
    /\ sess = [s \in Students |-> NoSession]
    /\ admin = NoAdmin
    /\ budget = NoBudget
    /\ gradeOut = <<>> /\ winOut = <<>>
    /\ \/ gradeIn \in {<<g>> : g \in GradeInputs} /\ winIn = <<>>
       \/ gradeIn = <<>> /\ winIn \in {<<i>> : i \in 0..Len(TOPICS)}

CallGrade ==
    /\ gradeIn # <<>> /\ gradeOut = <<>>
    /\ gradeOut' = <<grade_transcript(<<>>, gradeIn[1])>>
    /\ UNCHANGED <<store, clock, sess, admin, budget, gradeIn, winIn, winOut>>

CallWindow ==
    /\ winIn # <<>> /\ winOut = <<>>
    /\ winOut' = <<[opening |-> OpeningTopics(winIn[1]),
                    session |-> SessionTopics(winIn[1])]>>
    /\ UNCHANGED <<store, clock, sess, admin, budget, gradeIn, gradeOut, winIn>>

NextFn == CallGrade \/ CallWindow

SpecFn == InitFn /\ [][NextFn]_vars


(***************************************************************************)
(* Properties                                                              *)
(***************************************************************************)
WindowExhausted(s) ==
    sess[s].turn_count = Len(SessionTopics(sess[s].starting_topic_index))

\* C1: in every session grade_transcript is called at most once and at most
\* one row is inserted, whatever Answer, Skip and Finish events follow the
\* completion.
C1_AtMostOneGradingAndRecord ==
    \A s \in Students : sess[s].grade_calls <= 1 /\ sess[s].saves <= 1

\* a session completed by the last topic of its window, graded and saved once
C1_Witness ==
    \E s \in Students :
        /\ Completed(s) /\ WindowExhausted(s)
        /\ sess[s].grade_calls = 1 /\ sess[s].saves = 1

\* a step of participant s is an Answer or a Skip whose follow-up call failed
FollowUpFailed(s) == sess'[s] # sess[s] /\ sess'[s].error = "followup"

\* C2: an Answer or Skip whose follow-up generation call fails leaves the
\* session InProgress with the turn counter and the cumulative topic index
\* it had before, and keeps the participant turn it appended.
C2_FollowUpFailureKeepsCounters ==
    [][\A s \in Students :
         FollowUpFailed(s) =>
            /\ ~sess'[s].interview_complete
            /\ sess'[s].turn_count = sess[s].turn_count
            /\ sess'[s].current_topic_index = sess[s].current_topic_index
            /\ Len(sess'[s].messages) = Len(sess[s].messages) + 1
            /\ sess'[s].messages[Len(sess'[s].messages)].role = "user"]_vars

\* the row a completed session has inserted: its transcript, its cumulative
\* topic index and the grade it shows
SavedRow(s, i) ==
    /\ store[i].student_id = s
    /\ store[i].transcript = RenderTranscript(sess[s].messages)
    /\ store[i].topic_index = sess[s].current_topic_index
    /\ store[i].score = sess[s].grade_breakdown[1].score
    /\ store[i].status = sess[s].grade_breakdown[1].status

\* C3: a session that is Completed has inserted its row, whatever the grading
\* call did, unless the INSERT itself failed.
C3_CompletedIsPersisted ==
    \A s \in Students :
        Completed(s) /\ sess[s].save_failures = 0 =>
            /\ sess[s].saves = 1
            /\ \E i \in 1..Len(store) : SavedRow(s, i)

\* a session whose grading call was rate-limited on every attempt, and whose
\* row is in the store with the fallback grade
C3_Witness ==
    \E s \in Students :
        /\ Completed(s) /\ sess[s].saves = 1
        /\ sess[s].grade_breakdown[1].feedback = ApiLimitsText
        /\ \E i \in 1..Len(store) : SavedRow(s, i) /\ store[i].score = FallbackScore

\* C4: a result of grade_transcript with a non-zero sub-score has as score
\* the integer nearest to 0.4 c + 0.4 u + 0.2 e and is "Pass" exactly when
\* that score is at least 60, whatever the response states as Score and Status.
C4_ScoreIsRecomputed ==
    gradeOut # <<>> =>
        LET r == gradeOut[1]
            fifths == 2 * r.correctness + 2 * r.understanding + r.explanation
        IN  (r.correctness # 0 \/ r.understanding # 0 \/ r.explanation # 0) =>
               /\ 5 * r.score - fifths \in -2..2
               /\ r.status \in {Pass, Fail}
               /\ (r.status = Pass) <=> (r.score >= 60)

\* 90 / 80 / 70 with a stated Score of 10 and a stated Status of Fail: 82, Pass
C4_Witness ==
    /\ gradeIn = <<After(0, Text(Response(<<" ", "9", "0">>, <<" ", "8", "0">>,
                    <<" ", "7", "0">>, <<" ", "1", "0">>, <<" ">> \o Fail)))>>
    /\ gradeOut # <<>>
    /\ gradeOut[1].score = 82 /\ gradeOut[1].status = Pass

\* the generation call fails on every attempt that is made: by rate limit on
\* all of them, or by another error after rate limits only
GenerationFails(outcomes) ==
    \/ \A i \in 1..max_retries : outcomes[i].kind = "rate_limit"
    \/ \E k \in 1..max_retries :
          /\ outcomes[k].kind = "error"
          /\ \A i \in 1..(k - 1) : outcomes[i].kind = "rate_limit"

\* C5: when the generation call is rate-limited on every attempt, or fails
\* once with another error, grade_transcript returns 75, "Pass", 0, 0, 0 and
\* does not raise.
C5_FallbackGrade ==
    gradeOut # <<>> /\ GenerationFails(gradeIn[1]) =>
        /\ ~gradeOut[1].raised
        /\ gradeOut[1].score = 75 /\ gradeOut[1].status = Pass
        /\ gradeOut[1].correctness = 0 /\ gradeOut[1].understanding = 0
        /\ gradeOut[1].explanation = 0

\* the three attempts all rate-limited, and the fallback returned
C5_Witness ==
    /\ gradeIn # <<>> /\ gradeOut # <<>>
    /\ \A i \in 1..max_retries : gradeIn[1][i].kind = "rate_limit"
    /\ gradeOut[1].attempts = max_retries
    /\ gradeOut[1].score = 75

OutOfHundred == <<" ", "8", "5", "/", "1", "0", "0">>

HasLine(lines, label, value) ==
    \E i \in 1..Len(lines) : lines[i].label = label /\ lines[i].value = value

\* C6: a labelled line whose value is written "85/100" yields 85 for its
\* field (here: in a response that was parsed to the end).
C6_OutOfHundredYields85 ==
    gradeOut # <<>> /\ gradeIn[1][1].kind = "text"
                    /\ gradeOut[1].feedback = gradeIn[1][1].lines =>
        /\ HasLine(gradeIn[1][1].lines, "Correctness", OutOfHundred) =>
              gradeOut[1].correctness = 85
        /\ HasLine(gradeIn[1][1].lines, "Understanding", OutOfHundred) =>
              gradeOut[1].understanding = 85
        /\ HasLine(gradeIn[1][1].lines, "Explanation", OutOfHundred) =>
              gradeOut[1].explanation = 85
        /\ ( /\ HasLine(gradeIn[1][1].lines, "Score", OutOfHundred)
             /\ gradeOut[1].correctness = 0 /\ gradeOut[1].understanding = 0
             /\ gradeOut[1].explanation = 0 ) =>
              gradeOut[1].score = 85

NumericLabels == {"Correctness", "Understanding", "Explanation", "Score"}

\* a labelled numeric line of the response has no digit after its label
HasDigitlessLine(lines) ==
    \E i \in 1..Len(lines) :
        lines[i].label \in NumericLabels /\ FilterDigits(lines[i].value) = <<>>

\* the value the field of `label` is to have: that of its line, 0 when the
\* line has no digit or is absent
FieldValue(lines, label) ==
    IF \E i \in 1..Len(lines) : lines[i].label = label /\ FilterDigits(lines[i].value) # <<>>
    THEN LET i == CHOOSE j \in 1..Len(lines) : lines[j].label = label
         IN  DecimalValue(FilterDigits(lines[i].value))
    ELSE 0

\* C7: a response with a labelled numeric line without a digit is still
\* parsed: that field is 0, the other sub-scores are those of their lines,
\* and the result is the parsed one, not the ungraded fallback.
C7_DigitlessFieldIsZero ==
    gradeOut # <<>> /\ gradeIn[1][1].kind = "text"
                    /\ HasDigitlessLine(gradeIn[1][1].lines) =>
        /\ gradeOut[1].feedback = gradeIn[1][1].lines
        /\ gradeOut[1].correctness = FieldValue(gradeIn[1][1].lines, "Correctness")
        /\ gradeOut[1].understanding = FieldValue(gradeIn[1][1].lines, "Understanding")
        /\ gradeOut[1].explanation = FieldValue(gradeIn[1][1].lines, "Explanation")

\* the topic_index of the row of student_id inserted last, 0 without a row
LastAppendedTopicIndex(st, student_id) ==
    LET rows == RowsOf(st, student_id)
    IN  IF rows = {} THEN 0
        ELSE st[CHOOSE i \in rows : \A j \in rows : j <= i].topic_index

\* C8: get_student_topic_progress returns the topic_index of the
\* participant's most recently appended row, and 0 without a row.
C8_ProgressIsLastAppended ==
    \A s \in Students :
        get_student_topic_progress(store, s) = {LastAppendedTopicIndex(store, s)}

\* a step of participant s opens a session
Opens(s) == budget'.opened = budget.opened + 1 /\ sess'[s] # sess[s]

\* C9: a session opened on a stored progress index of 17 or more starts with
\* starting and cumulative topic index 0; on a smaller one, with both equal
\* to the stored index.
C9_StartWrapsAtCurriculumLength ==
    [][\A s \in Students :
         Opens(s) =>
            \E p \in get_student_topic_progress(store, s) :
               /\ sess'[s].starting_topic_index = (IF p >= 17 THEN 0 ELSE p)
               /\ sess'[s].current_topic_index = (IF p >= 17 THEN 0 ELSE p)
               /\ sess'[s].turn_count = 0]_vars

\* a session just opened at topic 0 for a participant whose stored progress
\* is the curriculum length
C9_Witness ==
    \E s \in Students :
        /\ InProgress(s) /\ sess[s].turn_count = 0
        /\ sess[s].starting_topic_index = 0 /\ sess[s].current_topic_index = 0
        /\ get_student_topic_progress(store, s) = {17}

\* C10: for a starting index s in 0..17 the topic window, at both places
\* that compute it, is the min(5, 17 - s) topics from position s on, in
\* curriculum order; from 15 it holds 2 topics.
C10_WindowIsClippedSlice ==
    winOut # <<>> =>
        LET s == winIn[1]
            n == Min(5, 17 - s)
            slice == [i \in 1..n |-> TOPICS[s + i]]
        IN  /\ s \in 0..17
            /\ Len(winOut[1].session) = n /\ Len(winOut[1].opening) = n
            /\ \A i \in 1..n : winOut[1].session[i] = slice[i]
                                 /\ winOut[1].opening[i] = slice[i]
            /\ s = 15 => Len(winOut[1].session) = 2

\* the window from 15: the last two topics
C10_Witness ==
    /\ winIn = <<15>> /\ winOut # <<>>
    /\ winOut[1].session = <<"Radioactivity", "Relativity">>

\* a step of participant s inserts a row
Appends(s) ==
    Len(store') = Len(store) + 1 /\ store'[Len(store')].student_id = s

\* C11: the topic_index of a row a participant's session inserts is not
\* smaller than that of the participant's previous row, unless the session
\* was opened on a stored progress of the curriculum length or more.
C11_TopicIndexNonDecreasing ==
    [][\A s \in Students :
         Appends(s) /\ RowsOf(store, s) # {} =>
            \/ store'[Len(store')].topic_index >= LastAppendedTopicIndex(store, s)
            \/ sess[s].progress >= Len(TOPICS)]_vars

\* a step of participant s is a press of Finish: the session becomes complete
\* without a turn being counted
FinishStep(s) ==
    /\ ~sess[s].interview_complete /\ sess'[s].interview_complete
    /\ sess'[s].turn_count = sess[s].turn_count

\* the INSERT of a step of participant s raised
InsertRaised(s) == sess'[s].save_failures = sess[s].save_failures + 1

\* a press of Finish completes the session and, unless the INSERT raises,
\* inserts one row: the log so far as transcript, the cumulative topic index
FinishCompletesAndAppends ==
    [][\A s \in Students :
         FinishStep(s) =>
            /\ sess'[s].has_messages /\ sess'[s].interview_complete
            /\ ~InsertRaised(s) =>
                  /\ Appends(s)
                  /\ SubSeq(store', 1, Len(store)) = store
                  /\ store'[Len(store')].transcript = RenderTranscript(sess[s].messages)
                  /\ store'[Len(store')].topic_index = sess[s].current_topic_index]_vars

\* the Finish button is on the page the last script run rendered: the run
\* reached the controls below the completion view
FinishAvailable(s) == sess[s].widgets = "chat" /\ ControlsReached(s)

\* Finish can be pressed in every state of a session in progress
FinishAlwaysEnabled == \A s \in Students : InProgress(s) => FinishAvailable(s)

\* Finish can be pressed whenever the last script run of a session in
\* progress rendered its controls, at every turn count and with an empty log
FinishEnabledWhenRendered ==
    \A s \in Students :
        InProgress(s) /\ sess[s].error # "start" /\ sess[s].error # "exception" =>
            FinishAvailable(s)

\* C12: Finish is enabled in every InProgress state, whatever the turn
\* counter and also with an empty message log, and pressing it completes the
\* session and inserts one row whose transcript is the log so far and whose
\* topic_index is the session's cumulative topic index.
C12_FinishFromAnyInProgressState ==
    /\ []FinishAlwaysEnabled
    /\ FinishCompletesAndAppends

\* a step of participant s makes a generation call of the chat that fails:
\* the opening call, or the follow-up of an Answer or a Skip
OpeningFailed(s) == sess'[s] # sess[s] /\ sess'[s].error = "start"

\* after a failed follow-up call the session is in progress and Finish is
\* on the page
FollowUpFailureOffersFinish ==
    [][\A s \in Students :
         FollowUpFailed(s) =>
            /\ sess'[s].has_messages /\ ~sess'[s].interview_complete
            /\ sess'[s].widgets = "chat"]_vars

\* C13: after a generation call of the session fails (the opening call, or
\* the follow-up of an Answer or a Skip) the session is InProgress and the
\* Finish button is available in the resulting state.
C13_FinishOfferedAfterGenerationFailure ==
    [][\A s \in Students :
         OpeningFailed(s) \/ FollowUpFailed(s) =>
            /\ sess'[s].has_messages /\ ~sess'[s].interview_complete
            /\ sess'[s].widgets = "chat"]_vars

\* a step of participant s makes a generation call of the chat
ChatCall(s) ==
    sess'[s] # sess[s] /\ (Opens(s) \/ sess'[s].error = "followup"
                              \/ Len(sess'[s].messages) = Len(sess[s].messages) + 2)

\* C14: a generation call of the chat (the opening call, the follow-up of an
\* Answer or a Skip) that fails by rate limit has been attempted 3 times
\* when the failure reaches the controller, and one that fails otherwise
\* has been attempted once.
C14_ChatCallsRetryOnRateLimit ==
    [][\A s \in Students :
         ChatCall(s) =>
            /\ sess'[s].call.kind = "rate_limit" => sess'[s].call.attempts = 3
            /\ sess'[s].call.kind = "error" => sess'[s].call.attempts = 1]_vars

\* C15: an INSERT that raises during complete_interview is reported as an
\* error of that run and inserts nothing; so a session that is Completed
\* and shows a grade without having inserted a row has had its save failure
\* reported.
C15_SaveFailureSurfaces ==
    /\ [][\A s \in Students :
            InsertRaised(s) => sess'[s].error = "save" /\ store' = store]_vars
    /\ [](\A s \in Students :
            Completed(s) /\ sess[s].grade_breakdown # <<>> /\ sess[s].saves = 0 =>
                sess[s].save_failures > 0)

\* a completed session that shows its grade, has no row, and whose page
\* reports the failure of the save
C15_Witness ==
    \E s \in Students :
        /\ Completed(s) /\ sess[s].grade_breakdown # <<>>
        /\ sess[s].saves = 0 /\ sess[s].save_failures = 1
        /\ sess[s].error = "save"
        /\ \A i \in RowsOf(store, s) :
              store[i].transcript # RenderTranscript(sess[s].messages)

\* a step of participant s completes their session
Completes(s) == ~sess[s].interview_complete /\ sess'[s].interview_complete

\* C16: the rows of the store change only by the one row a completing
\* session appends: opening a session, Answer, Skip, failed generation
\* calls, Start New Session and the review surface leave them as they are,
\* and no step changes or removes a row.
C16_StoreIsAppendOnlyAtCompletion ==
    [][store' # store =>
          /\ Len(store') = Len(store) + 1
          /\ SubSeq(store', 1, Len(store)) = store
          /\ \E s \in Students : Completes(s) /\ Appends(s)]_vars

\* the review surface was opened, then a session was answered, completed
\* and saved, and the next session was opened: the earlier rows are all there
C16_Witness ==
    \E s \in Students :
        /\ admin.logged_in /\ admin.rows = 4 /\ Len(store) = 5
        /\ SubSeq(store, 1, 4) = SubSeq(History, 1, 4)
        /\ store[5].student_id = s
        /\ InProgress(s) /\ budget.opened = 2 /\ budget.turns > 0

\* C17: every row of the store has score, correctness, understanding and
\* explanation within 0..100, whatever the evaluator answered.
C17_RecordScoresWithinRange ==
    \A i \in 1..Len(store) :
        /\ store[i].score \in 0..100
        /\ store[i].correctness \in 0..100
        /\ store[i].understanding \in 0..100
        /\ store[i].explanation \in 0..100

\* C18: every row of the store has status "Pass" or "Fail", whatever the
\* evaluator answered, also when its sub-scores are all zero or absent.
C18_RecordStatusIsPassOrFail ==
    \A i \in 1..Len(store) : store[i].status \in {Pass, Fail}

\* the roles of a log alternate, beginning with the companion
Alternates(m) ==
    \A i \in 1..Len(m) : m[i].role = (IF i % 2 = 1 THEN "assistant" ELSE "user")

\* the places of a log where a companion turn is missing: a participant
\* turn at its beginning or right after another participant turn
Gaps(m) ==
    {i \in 1..Len(m) : m[i].role = "user" /\ (i = 1 \/ m[i - 1].role = "user")}

\* C19 as stated: in every state the message log alternates strictly between
\* companion and participant turns, beginning with a companion turn.
C19_LogAlternatesStrictly ==
    \A s \in Students : Alternates(sess[s].messages)

\* C19 as amended: the log never has two consecutive companion turns; it
\* alternates strictly, beginning with a companion turn, as long as no
\* generation call of the session has failed; each failed call leaves out
\* one companion turn at most.
C19_LogAlternatesUntilACallFails ==
    \A s \in Students :
        LET m == sess[s].messages
        IN  /\ \A i \in 1..(Len(m) - 1) :
                  ~(m[i].role = "assistant" /\ m[i + 1].role = "assistant")
            /\ sess[s].gen_failures = 0 => Alternates(m)
            /\ Cardinality(Gaps(m)) <= sess[s].gen_failures

\* a session without a failed call after two turns: companion, participant,
\* companion, participant, companion
C19_Witness ==
    \E s \in Students :
        /\ InProgress(s) /\ sess[s].gen_failures = 0
        /\ Len(sess[s].messages) = 5 /\ Alternates(sess[s].messages)

\* the participant turns of the log of s are skip markers, one at least
OnlySkips(s) ==
    LET m == sess[s].messages
    IN  /\ \E i \in 1..Len(m) : m[i].role = "user"
        /\ \A i \in 1..Len(m) : m[i].role = "user" => m[i].kind = "skip"

\* grade_transcript returns a result for every outcome of the evaluator,
\* rate limits and other failures included
GradeNeverRaises ==
    gradeOut # <<>> =>
        /\ ~gradeOut[1].raised
        /\ gradeOut[1].score \in Nat /\ gradeOut[1].attempts \in 1..max_retries

\* C20: no call of grade_transcript made by a session raises, whatever the
\* transcript (empty, or skip markers only) and whatever the evaluator does:
\* the completion step always has a grade to show, and a session whose turns
\* were all skipped is Completed when its window is exhausted, with its one
\* row inserted unless the INSERT failed.
C20_GradingNeverRaises ==
    \A s \in Students :
        /\ sess[s].error # "exception"
        /\ sess[s].grade_calls > 0 =>
              /\ sess[s].interview_complete
              /\ sess[s].grade_breakdown # <<>>
              /\ sess[s].grade_breakdown[1].score \in Nat
        /\ OnlySkips(s) /\ WindowExhausted(s) =>
              /\ Completed(s)
              /\ sess[s].saves + sess[s].save_failures = 1

\* a session of two skipped topics, completed and saved with the fallback
\* grade after the evaluator's call failed
C20_Witness ==
    \E s \in Students :
        /\ OnlySkips(s) /\ WindowExhausted(s) /\ Completed(s)
        /\ sess[s].saves = 1
        /\ sess[s].grade_breakdown[1].feedback = GradingErrorText
        /\ \E i \in 1..Len(store) : SavedRow(s, i) /\ store[i].score = FallbackScore

\* the rows of participant b, in insertion order
RecordsOf(st, b) == SelectSeq(st, LAMBDA r : r.student_id = b)

\* C21: a step of participant a's session, its completion append included,
\* changes neither the session state of another participant b, nor b's
\* rows, nor what get_student_topic_progress returns for b.
C21_ParticipantsDoNotInterfere ==
    [][\A a, b \in Students :
         a # b /\ sess'[a] # sess[a] =>
            /\ sess'[b] = sess[b]
            /\ RecordsOf(store', b) = RecordsOf(store, b)
            /\ get_student_topic_progress(store', b)
                  = get_student_topic_progress(store, b)]_vars

\* one participant has completed and saved a session while the other's is
\* in progress
C21_Witness ==
    \E a, b \in Students :
        /\ a # b
        /\ Completed(a) /\ sess[a].saves = 1
        /\ store[Len(store)].student_id = a
        /\ InProgress(b) /\ sess[b].messages # <<>>

\* the generation request of an analysis failed: a failure other than a rate
\* limit on some attempt, or a rate limit on every attempt
AnalysisFailed(outcomes) ==
    \E n \in 1..analysis_max_retries :
        /\ \A k \in 1..(n - 1) : outcomes[k].kind = "rate_limit"
        /\ \/ outcomes[n].kind = "error"
           \/ outcomes[n].kind = "rate_limit" /\ n = analysis_max_retries

AnalysisPlaceholders ==
    {RateLimitAnalysisText, AnalysisErrorText, MultipleAttemptsAnalysisText}

\* C22: a call of analyze_student_session made from the review page never
\* raises and makes at most three attempts; when the generation failed (a
\* rate limit on each attempt, or another failure when it first occurs) the
\* text it returns, which the page stores for the row, is a placeholder; and
\* the step changes neither the stored rows nor any session nor any
\* participant's progress value.
C22_AnalysisNeverRaises ==
    [][admin'.analysis_call # admin.analysis_call =>
         LET c == admin'.analysis_call[1]
         IN  /\ ~c.result.raised
             /\ admin'.page = "student"
             /\ c.result.attempts \in 1..analysis_max_retries
             /\ [row |-> c.row, text |-> c.result.text] \in admin'.analysis_results
             /\ AnalysisFailed(c.outcomes) <=> c.result.text \in AnalysisPlaceholders
             /\ store' = store
             /\ sess' = sess
             /\ \A b \in Students :
                   get_student_topic_progress(store', b) = get_student_topic_progress(store, b)]_vars

\* an analysis whose three attempts were all rate limited, stored with its
\* placeholder for a row of the participant viewed
C22_Witness ==
    /\ admin.analysis_call # <<>>
    /\ admin.page = "student"
    /\ admin.analysis_call[1].result.attempts = analysis_max_retries
    /\ admin.analysis_call[1].result.text = RateLimitAnalysisText
    /\ [row |-> admin.analysis_call[1].row, text |-> RateLimitAnalysisText]
          \in admin.analysis_results

\* C23: a script run of the administrator's page leaves the stored rows as
\* they are, and when it computes the summary from the same rows as the
\* summary computed before it (no row was appended in between), every line
\* of the two summaries agrees: latest topic index and completion status,
\* number of sessions, latest and average score, latest status, last date.
C23_SummaryIsRepeatable ==
    [][admin'.runs # admin.runs =>
         /\ store' = store
         /\ admin'.page = "list" /\ admin.summary # <<>>
               /\ admin.summary[1].of = Len(store)
            => admin'.summary = admin.summary]_vars

\* the summary computed a second time from the same rows, one of them
\* appended by a session of this run, for a participant of several sessions
C23_Witness ==
    /\ admin.repeated /\ admin.page = "list"
    /\ \E s \in Students :
          /\ sess[s].saves = 1
          /\ admin.summary[1].lines[s].total_sessions > 1

\* a step of participant s's session in progress that appends a participant
\* turn: the Skip button or the chat input
TurnStep(s) ==
    /\ InProgress(s)
    /\ Len(sess'[s].messages) > Len(sess[s].messages)
    /\ sess'[s].messages[Len(sess[s].messages) + 1].role = "user"

\* C24: whenever the controls of a session in progress are on the page the
\* turn counter is below the window length, so Skip acts wherever the chat
\* input does; and a step of either kind increments the turn counter and the
\* cumulative topic index by one and completes the session exactly when the
\* incremented turn counter equals the window length. The appended turn of
\* a Skip is the marker of the window topic at the turn position before the
\* increment; that of the chat input is the text entered.
C24_SkipAdvancesLikeAnswer ==
    /\ [](\A s \in Students :
            InProgress(s) /\ FinishAvailable(s) =>
               sess[s].turn_count < Len(SessionTopics(sess[s].starting_topic_index)))
    /\ [][\A s \in Students :
            TurnStep(s) =>
               LET topics == SessionTopics(sess[s].starting_topic_index)
                   turn == sess'[s].messages[Len(sess[s].messages) + 1]
               IN  /\ sess'[s].turn_count = sess[s].turn_count + 1
                   /\ sess'[s].current_topic_index = sess[s].current_topic_index + 1
                   /\ sess'[s].starting_topic_index = sess[s].starting_topic_index
                   /\ sess'[s].interview_complete <=> sess'[s].turn_count = Len(topics)
                   /\ \/ turn = SkipMessage(topics[sess[s].turn_count + 1])
                      \/ turn \in {UserAnswer(prompt) : prompt \in AnswerTexts}]_vars

\* a session of an answered turn and a skipped turn, completed by a Skip of
\* the last topic of its window
C24_Witness ==
    \E s \in Students :
        LET m == sess[s].messages
        IN  /\ Completed(s) /\ WindowExhausted(s)
            /\ m # <<>> /\ m[Len(m)].kind = "skip"
            /\ \E i \in 1..Len(m) : m[i].kind = "answer"

\* the attempt of a call on which the evaluator first does something other
\* than fail with a rate limit; 0 when every attempt is rate limited
FirstDecisive(outcomes) ==
    IF \A k \in 1..max_retries : outcomes[k].kind = "rate_limit" THEN 0
    ELSE CHOOSE k \in 1..max_retries :
            /\ outcomes[k].kind # "rate_limit"
            /\ \A j \in 1..(k - 1) : outcomes[j].kind = "rate_limit"

\* C25: a call of grade_transcript makes at most three attempts, each one
\* after the first made right after a rate-limit failure; a failure of
\* another kind ends the call on its attempt; and the first response ends
\* the call on its attempt with the result parsed from it.
C25_BoundedRetryEndsWithParsedResult ==
    gradeOut # <<>> =>
        LET outcomes == gradeIn[1]
            r == gradeOut[1]
            d == FirstDecisive(outcomes)
        IN  /\ r.attempts \in 1..max_retries
            /\ \A k \in 1..(r.attempts - 1) : outcomes[k].kind = "rate_limit"
            /\ d # 0 => r.attempts = d
            /\ d # 0 /\ outcomes[d].kind = "text" => r.feedback = outcomes[d].lines

\* the same, for the responses whose labelled numeric lines all have a digit
RetryEndsWithParsedResultOfDigits ==
    gradeOut # <<>> =>
        LET outcomes == gradeIn[1]
            r == gradeOut[1]
            d == FirstDecisive(outcomes)
        IN  /\ r.attempts \in 1..max_retries
            /\ \A k \in 1..(r.attempts - 1) : outcomes[k].kind = "rate_limit"
            /\ d # 0 => r.attempts = d
            /\ d # 0 /\ outcomes[d].kind = "text" /\ ~HasDigitlessLine(outcomes[d].lines)
                  => r.feedback = outcomes[d].lines

\* the participant turns of a message log: one per Answer or Skip
Turns(messages) == Len(SelectSeq(messages, LAMBDA m : m.role = "user"))

\* C26: in every state of a session the cumulative topic index is the
\* starting topic index plus the turn counter, the turn counter lies between
\* 0 and the window length and is below it while the session is in
\* progress; and the topic_index of the row a session inserts is its
\* starting index plus the number of its Answer and Skip turns.
C26_TopicIndexIsStartPlusTurns ==
    /\ [](\A s \in Students :
            LET w == Len(SessionTopics(sess[s].starting_topic_index))
            IN  /\ sess[s].current_topic_index =
                      sess[s].starting_topic_index + sess[s].turn_count
                /\ sess[s].turn_count \in 0..w
                /\ sess[s].turn_count = Turns(sess[s].messages)
                /\ InProgress(s) => sess[s].turn_count < w)
    /\ [][\A s \in Students :
            Appends(s) =>
               store'[Len(store')].topic_index =
                  sess[s].starting_topic_index + Turns(sess'[s].messages)]_vars

\* a session opened on a stored index above 0, completed by Finish after
\* two turns, with its row inserted
C26_Witness ==
    \E s \in Students :
        /\ Completed(s) /\ sess[s].saves = 1
        /\ sess[s].starting_topic_index > 0
        /\ sess[s].turn_count = 2 /\ ~WindowExhausted(s)
        /\ store[Len(store)].student_id = s
        /\ store[Len(store)].topic_index = sess[s].starting_topic_index + 2

\* C27: in every run that starts from the rows of earlier sessions (none,
\* or some), every stored topic_index lies in 0..17 and the starting index
\* of every session opened lies in 0..16, so its window has one to five
\* topics and the opening block finds the first of them.
C27_IndicesStayWithinCurriculum ==
    /\ \A i \in 1..Len(store) : store[i].topic_index \in 0..Len(TOPICS)
    /\ \A s \in Students :
          sess[s].has_messages =>
             /\ sess[s].starting_topic_index \in 0..(Len(TOPICS) - 1)
             /\ Len(SessionTopics(sess[s].starting_topic_index)) \in 1..WindowSize
             /\ OpeningTopics(sess[s].starting_topic_index) # <<>>
             /\ sess[s].current_topic_index \in 0..Len(TOPICS)

\* a session opened on the last topic of the curriculum, its window of one
\* topic answered and its row inserted with topic_index 17
C27_Witness ==
    \E s \in Students :
        /\ Completed(s) /\ sess[s].saves = 1
        /\ sess[s].starting_topic_index = Len(TOPICS) - 1
        /\ Len(SessionTopics(sess[s].starting_topic_index)) = 1
        /\ store[Len(store)].student_id = s
        /\ store[Len(store)].topic_index = Len(TOPICS)

\* the Answer and Skip turns a session in progress still has to take before
\* its window is exhausted
TurnsLeft(s) == Len(SessionTopics(sess[s].starting_topic_index)) - sess[s].turn_count

\* C28: a session in progress has at least one and at most window-length
\* turns left; every Answer or Skip takes one of them, whether its follow-up
\* call succeeds or fails, and the one that takes the last completes the
\* session; a press of Finish completes it at once. After a failed follow-up
\* the controls are still on the page. So at most window-length Answer and
\* Skip actions, or one Finish, lead from any state in progress to Completed.
C28_TurnsLeftDecrease ==
    /\ [](\A s \in Students :
            InProgress(s) =>
               /\ TurnsLeft(s) \in 1..Len(SessionTopics(sess[s].starting_topic_index))
               /\ sess[s].error = "followup" => FinishAvailable(s))
    /\ [][\A s \in Students :
            /\ TurnStep(s) =>
                  /\ sess'[s].turn_count = sess[s].turn_count + 1
                  /\ sess'[s].starting_topic_index = sess[s].starting_topic_index
                  /\ sess'[s].interview_complete <=>
                        sess'[s].turn_count = Len(SessionTopics(sess[s].starting_topic_index))
            /\ InProgress(s) /\ sess'[s].grade_calls = sess[s].grade_calls + 1 =>
                  sess'[s].interview_complete /\ sess'[s].has_messages
            /\ InProgress(s) /\ sess'[s].has_messages /\ ~sess'[s].interview_complete =>
                  sess'[s].turn_count >= sess[s].turn_count]_vars

\* a session of a window of two topics, Completed by its second turn after
\* the follow-up call of its first turn failed
C28_Witness ==
    \E s \in Students :
        /\ Completed(s) /\ WindowExhausted(s)
        /\ sess[s].turn_count = 2
        /\ sess[s].gen_failures = 1
        /\ Len(sess[s].messages) = 3

\* C29: the opening request of a session is sent only by the run that
\* creates the session: the first run after the identifier is entered, or
\* the run after Start New Session on the completion view. No step of a
\* session in progress sends it again. When it fails the session is in
\* progress with an empty log and turn counter 0, after one attempt.
C29_OpeningRequestOncePerSession ==
    [][\A s \in Students :
         /\ Opens(s) =>
               /\ ~InProgress(s)
               /\ NotStarted(s) \/ (Completed(s) /\ sess[s].widgets = "done")
               /\ sess'[s].call.attempts = 1
         /\ OpeningFailed(s) =>
               /\ Opens(s)
               /\ sess'[s].has_messages /\ ~sess'[s].interview_complete
               /\ sess'[s].messages = <<>>
               /\ sess'[s].turn_count = 0
         /\ InProgress(s) /\ sess'[s].has_messages =>
               /\ sess'[s].starting_topic_index = sess[s].starting_topic_index
               /\ Len(sess'[s].messages) >= Len(sess[s].messages)]_vars

\* the one session of a run, its opening request failed, continued by an
\* answer whose follow-up was answered: the log starts with the answer
C29_Witness ==
    \E s \in Students :
        /\ InProgress(s) /\ budget.opened = 1
        /\ sess[s].turn_count = 1
        /\ Len(sess[s].messages) = 2
        /\ sess[s].messages[1].role = "user"

====
